---- MODULE Spec2Model ----
(***************************************************************************)
(* The programs of the design-patterns collection, one section each:       *)
(*   - behavioral/simple_strategy.c (Command pattern part): a TextEditor    *)
(*     receiver, the Insert / Delete / Copy / Paste commands and the        *)
(*     CommandManager invoker with its undo / redo history;                 *)
(*   - behavioral/simple_command.c: a Light, its three commands and the     *)
(*     RemoteControl;                                                       *)
(*   - unnamed/part_004: the singleton Logger;                              *)
(*   - behavioral/simple_observer.c and behavioral/observer.c: a subject    *)
(*     and its list of observers;                                           *)
(*   - behavioral/simple_state.c: the traffic light;                        *)
(*   - unnamed/part_003: the chain of request handlers.                     *)
(* The programs share nothing: a specification runs the calls of one of     *)
(* them and leaves the variables of the others as they were created.        *)
(*                                                                          *)
(* Characters are their codes: 97 is 'a', 98 is 'b', 48 is '0' and 0 is the *)
(* string terminator.  A C string is the sequence of the bytes before the   *)
(* first 0 of its buffer.                                                   *)
(***************************************************************************)
EXTENDS Integers, Sequences, FiniteSets, TLC

\* #define MAX_COMMANDS 50: the number of slots of command_history.
MAX_COMMANDS == 50

\* The client of the main specification creates at most MaxCreated commands
\* and makes no call that takes the document beyond MaxContent characters.
MaxCreated == 3
MaxContent == 2

\* #define MAX_HISTORY 10: the number of slots of RemoteControl.history.
MAX_HISTORY == 10

\* The client of the remote control presses at most MaxPresses buttons.
MaxPresses == 3

\* char messages[10][512]: the number of messages a Logger stores.
MessageSlots == 10

\* The client of the logger lets get_logger_instance create at most
\* MaxLoggers instances, one after the other.
MaxLoggers == 2

\* #define MAX_OBSERVERS 5 of simple_observer.c and #define MAX_OBSERVERS 20
\* of observer.c: the slots of the observer lists.
MAX_OBSERVERS == 5
NEWS_MAX_OBSERVERS == 20

\* The client of the news agency attaches while the agency has fewer than
\* MaxAttached observers.
MaxAttached == 3

\* The client of a traffic light calls traffic_light_next while cycle_count
\* is below MaxCycles.
MaxCycles == 7

\* The client of the chain sends requests while the help desk has handled
\* fewer than MaxTickets tickets.
MaxTickets == 2

\* Two racing threads create at most MaxRaced commands between them.
MaxRaced == 2

\* The client of the vending machine inserts no coin that takes
\* inserted_amount beyond MaxInserted cents.
MaxInserted == 300


\* The texts a client inserts ("a", "ab") and the lengths of the ranges it
\* deletes and copies.
Texts == {<<97>>, <<97, 98>>}
Lengths == {1, 2}

\* The bytes of a buffer the model keeps: room for the longest range, the
\* byte stored after it and one byte more.  The buffers of the program are
\* longer (clipboard[500], deleted_text[200]); the byte after the last
\* modelled one is taken to be 0.
BufCap == (CHOOSE n \in Lengths : \A m \in Lengths : m <= n) + 2

\* What malloc may have left in the bytes of a block nobody wrote yet: zeros,
\* or the character an earlier owner of the block filled it with.
UninitByte == {0, 97}

\* The value of the character constant '\\0' as the program spells it: the
\* two characters backslash (92) and '0' (48), an int 92 * 256 + 48, cut to
\* a char when it is stored.
TermByte == (92 * 256 + 48) % 256

VARIABLES
    \* simple_strategy.c
    editor,           \* the TextEditor: content, cursor_position, clipboard
    command_history,  \* CommandManager.command_history, slots 0..MAX_COMMANDS-1
    current_index,    \* CommandManager.current_index
    history_size,     \* CommandManager.history_size
    calls,            \* the command effects the last call invoked, in order
    report,           \* what the last call of the manager printed
    ub,               \* a store outside command_history has happened
    created,          \* the number of commands the client has created
    called,           \* the function of the manager the client called last
    round,            \* the progress of an execute, undo, redo in a row
    destroys,         \* the destroy calls so far: on live commands, on others
    trip,             \* the progress of n executes, n undos, n redos in a row
    listing,          \* the lines the last call printed after its report
    threads,          \* two threads on the manager: where each is in its call, its locals
    lock,             \* the threads that hold the lock of the manager: none or one
    \* simple_command.c
    light,            \* the Light: is_on, brightness
    buttons,          \* the command objects main creates, by the name of the pointer
    remote,           \* the RemoteControl: history, history_count
    pressed,          \* the pressed commands nobody has undone yet, oldest first
    remote_called,    \* the function of the remote the client called last
    remote_calls,     \* the command effects the last call of the remote invoked
    remote_report,    \* what the last call of the remote printed itself
    presses,          \* the number of press_button calls so far
    press_round,      \* the progress of a press_button, press_undo in a row
    session,          \* the presses since the history was empty: the light before them, a reuse
    \* part_004
    logger_instance,  \* the static pointer: NULL or the block of the Logger
    logger_heap,      \* the blocks malloc hands out: free, or a Logger
    refs,             \* the pointers the client holds: logger1, logger2
    since,            \* the pointers get_logger_instance returned since the last destroy_logger
    logger_called,    \* the last call of the client, its arguments and what it returned
    logger_report,    \* what the last call printed
    instances,        \* the number of Loggers created so far
    log_calls,        \* the number of log_message calls so far
    \* simple_observer.c and observer.c
    subject,          \* the weather station: observers, observer_count, current_status
    agency,           \* the news agency: observers, observer_count, state, latest_news
    delivered,        \* the observers the last call notified, in order
    stopped,          \* the observers unsubscribed or detached and not back since
    observer_called,  \* the last call of the client and the list it was made on
    \* simple_state.c
    lights,           \* the TrafficLights of main: current_state, cycle_count
    next_calls,       \* the number of traffic_light_next calls on each light
    light_called,     \* the last call of the client and the light it was made on
    \* part_003
    handlers,         \* the Handler objects of main, by the name of the pointer
    chain_called,     \* the last call of the client: set_next or handle_request
    route,            \* the handlers that received the last request, in order
    outcome,          \* how the last handle_request ended, and at which handler
    \* simple_strategy.c, the vending machine
    machine,          \* the VendingMachine
    vend_called,      \* the last call of the client through current_state and its argument
    vend_result       \* what the last call did: set_state calls, stock decrements, message

managerVars == <<editor, command_history, current_index, history_size, calls, report,
                 ub, created, called, round, destroys, trip, listing>>

remoteVars == <<light, buttons, remote, pressed, remote_called, remote_calls,
                remote_report, presses, press_round, session>>

loggerVars == <<logger_instance, logger_heap, refs, since, logger_called, logger_report,
                instances, log_calls>>

observerVars == <<subject, agency, delivered, stopped, observer_called>>

trafficVars == <<lights, next_calls, light_called>>

chainVars == <<handlers, chain_called, route, outcome>>

threadVars == <<threads, lock>>

vendingVars == <<machine, vend_called, vend_result>>

vars == <<managerVars, threadVars, remoteVars, loggerVars, observerVars, trafficVars,
          chainVars, vendingVars>>

\* What the calls of one program leave alone: the variables of the others.
OutsideThreads == <<remoteVars, loggerVars, observerVars, trafficVars, chainVars, vendingVars>>
OutsideManager == <<threadVars, OutsideThreads>>
OutsideRemote == <<managerVars, threadVars, loggerVars, observerVars, trafficVars, chainVars,
                   vendingVars>>
OutsideLogger == <<managerVars, threadVars, remoteVars, observerVars, trafficVars, chainVars,
                   vendingVars>>
OutsideObserver == <<managerVars, threadVars, remoteVars, loggerVars, trafficVars, chainVars,
                     vendingVars>>
OutsideTraffic == <<managerVars, threadVars, remoteVars, loggerVars, observerVars, chainVars,
                    vendingVars>>
OutsideChain == <<managerVars, threadVars, remoteVars, loggerVars, observerVars, trafficVars,
                  vendingVars>>
OutsideVending == <<managerVars, threadVars, remoteVars, loggerVars, observerVars, trafficVars,
                    chainVars>>

----------------------------------------------------------------------------
\* C strings and buffers

\* strlen: the number of bytes before the first 0.
strlen(buf) ==
    IF \E i \in 1..Len(buf) : buf[i] = 0
    THEN (CHOOSE i \in 1..Len(buf) : buf[i] = 0 /\ \A j \in 1..(i - 1) : buf[j] # 0) - 1
    ELSE Len(buf)

\* The C string a buffer holds.
CString(buf) == SubSeq(buf, 1, strlen(buf))

\* strncpy(dest, src, n) for a string src: exactly n bytes of dest are
\* written, the bytes of src and then zeros; the others keep their value.
strncpy(dest, src, n) ==
    [i \in 1..Len(dest) |->
        IF i <= n THEN (IF i <= Len(src) THEN src[i] ELSE 0) ELSE dest[i]]

\* The string that starts at content[start].
StringAt(content, start) == SubSeq(content, start + 1, Len(content))

\* A buffer after strcpy(buffer, ""): byte 0 is the terminator, the others
\* are whatever malloc returned.
FreshBuffers ==
    {[i \in 1..BufCap |-> IF i = 1 \/ i = BufCap THEN 0 ELSE j] : j \in UninitByte}

----------------------------------------------------------------------------
\* Receiver: TextEditor

\* create_text_editor: empty content, cursor 0, empty clipboard.
EditorInit == {[content |-> <<>>, cursor_position |-> 0, clipboard |-> b] : b \in FreshBuffers}

\* text_editor_insert_text: move content[position..len] (terminator
\* included) up by strlen(text), then write text at position.  With
\* position beyond the terminator the loop does not run and the text lands
\* after the terminator: the string is unchanged.
text_editor_insert_text(self, text, position) ==
    [self EXCEPT
        !.content = IF position <= Len(@)
                    THEN SubSeq(@, 1, position) \o text \o SubSeq(@, position + 1, Len(@))
                    ELSE @,
        !.cursor_position = position + Len(text)]

\* text_editor_delete_text: for i = start .. len - length copy
\* content[i + length] to content[i]; the last copy moves the terminator.
\* The loop does not run when start > len - length.
text_editor_delete_text(self, start, length) ==
    [self EXCEPT
        !.content = IF start <= Len(@) - length
                    THEN SubSeq(@, 1, start) \o SubSeq(@, start + length + 1, Len(@))
                    ELSE @,
        !.cursor_position = start]

\* text_editor_copy_text: strncpy into the clipboard, then
\* clipboard[length] = '\\0'.
text_editor_copy_text(self, start, length) ==
    [self EXCEPT
        !.clipboard = [strncpy(@, StringAt(self.content, start), length)
                          EXCEPT ![length + 1] = TermByte]]

\* text_editor_paste_text: insert the clipboard string.
text_editor_paste_text(self, position) ==
    text_editor_insert_text(self, CString(self.clipboard), position)

----------------------------------------------------------------------------
\* Concrete commands.  An effect maps the command object and the editor to
\* the command object and the editor after it.

create_insert_command(text, position) ==
    [name |-> "Insert", text |-> text, position |-> position]

create_delete_command(start, length, fresh) ==
    [name |-> "Delete", start_position |-> start, length |-> length,
     deleted_text |-> fresh]

create_copy_command(start, length) ==
    [name |-> "Copy", start_position |-> start, length |-> length]

create_paste_command(position) ==
    [name |-> "Paste", position |-> position, pasted_text |-> <<>>, pasted_length |-> 0]

insert_command_execute(cmd, ed) ==
    [cmd |-> cmd, editor |-> text_editor_insert_text(ed, cmd.text, cmd.position)]

insert_command_undo(cmd, ed) ==
    [cmd |-> cmd, editor |-> text_editor_delete_text(ed, cmd.position, Len(cmd.text))]

\* delete_command_execute: save the text to delete with strncpy and
\* deleted_text[length] = '\\0', then delete.
delete_command_execute(cmd, ed) ==
    [cmd |-> [cmd EXCEPT
                 !.deleted_text =
                     [strncpy(@, StringAt(ed.content, cmd.start_position), cmd.length)
                         EXCEPT ![cmd.length + 1] = TermByte]],
     editor |-> text_editor_delete_text(ed, cmd.start_position, cmd.length)]

delete_command_undo(cmd, ed) ==
    [cmd |-> cmd,
     editor |-> text_editor_insert_text(ed, CString(cmd.deleted_text), cmd.start_position)]

copy_command_execute(cmd, ed) ==
    [cmd |-> cmd, editor |-> text_editor_copy_text(ed, cmd.start_position, cmd.length)]

\* copy_command_undo only prints that Copy cannot be undone.
copy_command_undo(cmd, ed) ==
    [cmd |-> cmd, editor |-> ed]

\* paste_command_execute: remember the clipboard string and its length,
\* then paste.
paste_command_execute(cmd, ed) ==
    [cmd |-> [cmd EXCEPT !.pasted_text = CString(ed.clipboard),
                         !.pasted_length = Len(CString(ed.clipboard))],
     editor |-> text_editor_paste_text(ed, cmd.position)]

paste_command_undo(cmd, ed) ==
    [cmd |-> cmd, editor |-> text_editor_delete_text(ed, cmd.position, cmd.pasted_length)]

\* command->execute(command): the call through the function pointer.
CommandExecute(cmd, ed) ==
    CASE cmd.name = "Insert" -> insert_command_execute(cmd, ed)
      [] cmd.name = "Delete" -> delete_command_execute(cmd, ed)
      [] cmd.name = "Copy"   -> copy_command_execute(cmd, ed)
      [] cmd.name = "Paste"  -> paste_command_execute(cmd, ed)

\* command->undo(command).
CommandUndo(cmd, ed) ==
    CASE cmd.name = "Insert" -> insert_command_undo(cmd, ed)
      [] cmd.name = "Delete" -> delete_command_undo(cmd, ed)
      [] cmd.name = "Copy"   -> copy_command_undo(cmd, ed)
      [] cmd.name = "Paste"  -> paste_command_undo(cmd, ed)

----------------------------------------------------------------------------
\* Invoker: CommandManager

Slots == 0..(MAX_COMMANDS - 1)

\* A slot malloc returned and nobody wrote, and a slot whose command was
\* destroyed.
Unset == [name |-> "unset"]
Destroyed == [name |-> "destroyed"]

IsCommand(c) == c.name \in {"Insert", "Delete", "Copy", "Paste"}

\* The manager as a client sees it.
Snapshot ==
    [editor |-> editor, command_history |-> command_history,
     current_index |-> current_index, history_size |-> history_size]

NoEditor == [content |-> <<>>, cursor_position |-> -1, clipboard |-> <<>>]
NoRound == [stage |-> 0, cmd |-> Unset, before |-> NoEditor, after |-> <<>>]
NoListing == [lines |-> <<>>, previous |-> <<>>]
NoTrip == [phase |-> "none", n |-> 0, k |-> 0, initial |-> <<>>, final |-> <<>>]

\* create_command_manager and create_text_editor.
InitManager ==
    /\ editor \in EditorInit
    /\ command_history = [i \in Slots |-> Unset]
    /\ current_index = -1
    /\ history_size = 0
    /\ calls = <<>>
    /\ report = "created"
    /\ ub = FALSE
    /\ created = 0
    /\ called = "create_command_manager"
    /\ round = NoRound
    /\ destroys = [live |-> 0, other |-> 0]
    /\ trip = NoTrip
    /\ listing = NoListing

\* The destroy calls on the slots of a set: those that reach a command and
\* those that reach a slot without one.
Destroying(slots) ==
    [live  |-> destroys.live + Cardinality({i \in slots : IsCommand(command_history[i])}),
     other |-> destroys.other + Cardinality({i \in slots : ~IsCommand(command_history[i])})]

\* The int a store of a heap pointer leaves in current_index when it lands
\* on it (the low half of the pointer).
PointerLow == {-409499232, 1380383136}

\* execute_command: run the effect, destroy the commands after
\* current_index, then store the command at ++current_index and set
\* history_size.  command_history[MAX_COMMANDS] is not a slot of the array:
\* on the store the pointer lands on current_index and history_size, which
\* follow the array in CommandManager, and what the two hold afterwards
\* depends on the build.
execute_command(command) ==
    LET r == CommandExecute(command, editor)
        idx == current_index + 1
        cleared == [i \in Slots |->
                       IF i >= idx /\ i < history_size THEN Destroyed
                       ELSE command_history[i]]
    IN /\ editor' = r.editor
       /\ calls' = <<[fn |-> "execute", slot |-> idx, cmd |-> r.cmd]>>
       /\ report' = "Executing"
       /\ destroys' = Destroying({i \in Slots : i >= idx /\ i < history_size})
       /\ IF idx < MAX_COMMANDS
          THEN /\ command_history' = [cleared EXCEPT ![idx] = r.cmd]
               /\ current_index' = idx
               /\ history_size' = idx + 1
               /\ ub' = FALSE
          ELSE /\ command_history' = cleared
               /\ current_index' \in {idx} \cup PointerLow
               /\ history_size' \in {idx + 1, current_index' + 1}
               /\ ub' = TRUE

\* undo_command with the decrement moved out of the if: the cursor also
\* moves when there is nothing to undo.
undo_command_past_begin ==
    IF current_index >= 0
    THEN LET command == command_history[current_index]
             r == CommandUndo(command, editor)
         IN /\ editor' = r.editor
            /\ command_history' = [command_history EXCEPT ![current_index] = r.cmd]
            /\ calls' = <<[fn |-> "undo", slot |-> current_index, cmd |-> r.cmd]>>
            /\ report' = "Undoing"
            /\ current_index' = current_index - 1
            /\ UNCHANGED <<history_size, ub, destroys>>
    ELSE /\ calls' = <<>>
         /\ report' = "Nothing to undo"
         /\ current_index' = current_index - 1
         /\ UNCHANGED <<editor, command_history, history_size, ub, destroys>>

\* undo_command without the decrement.
undo_command_no_step ==
    IF current_index >= 0
    THEN LET command == command_history[current_index]
             r == CommandUndo(command, editor)
         IN /\ editor' = r.editor
            /\ command_history' = [command_history EXCEPT ![current_index] = r.cmd]
            /\ calls' = <<[fn |-> "undo", slot |-> current_index, cmd |-> r.cmd]>>
            /\ report' = "Undoing"
            /\ UNCHANGED <<current_index, history_size, ub, destroys>>
    ELSE /\ calls' = <<>>
         /\ report' = "Nothing to undo"
         /\ UNCHANGED <<editor, command_history, current_index, history_size, ub, destroys>>

\* undo_command: with a command at current_index, call its undo and step
\* the cursor back; otherwise print that there is nothing to undo.
undo_command ==
    IF current_index >= 0
    THEN LET command == command_history[current_index]
             r == CommandUndo(command, editor)
         IN /\ editor' = r.editor
            /\ command_history' = [command_history EXCEPT ![current_index] = r.cmd]
            /\ calls' = <<[fn |-> "undo", slot |-> current_index, cmd |-> r.cmd]>>
            /\ report' = "Undoing"
            /\ current_index' = current_index - 1
            /\ UNCHANGED <<history_size, ub, destroys>>
    ELSE /\ calls' = <<>>
         /\ report' = "Nothing to undo"
         /\ UNCHANGED <<editor, command_history, current_index, history_size, ub, destroys>>

\* redo_command that keeps the books as execute_command does: the history
\* ends at the redone command.
redo_command_truncating ==
    IF current_index + 1 < history_size
    THEN LET command == command_history[current_index + 1]
             r == CommandExecute(command, editor)
         IN /\ current_index' = current_index + 1
            /\ editor' = r.editor
            /\ command_history' = [command_history EXCEPT ![current_index + 1] = r.cmd]
            /\ calls' = <<[fn |-> "execute", slot |-> current_index + 1, cmd |-> r.cmd]>>
            /\ report' = "Redoing"
            /\ history_size' = current_index + 2
            /\ UNCHANGED <<ub, destroys>>
    ELSE /\ calls' = <<>>
         /\ report' = "Nothing to redo"
         /\ UNCHANGED <<editor, command_history, current_index, history_size, ub, destroys>>

\* redo_command: with a command after current_index, step the cursor
\* forward and call its execute; otherwise print that there is nothing to
\* redo.
redo_command ==
    IF current_index + 1 < history_size
    THEN LET command == command_history[current_index + 1]
             r == CommandExecute(command, editor)
         IN /\ current_index' = current_index + 1
            /\ editor' = r.editor
            /\ command_history' = [command_history EXCEPT ![current_index + 1] = r.cmd]
            /\ calls' = <<[fn |-> "execute", slot |-> current_index + 1, cmd |-> r.cmd]>>
            /\ report' = "Redoing"
            /\ UNCHANGED <<history_size, ub, destroys>>
    ELSE /\ calls' = <<>>
         /\ report' = "Nothing to redo"
         /\ UNCHANGED <<editor, command_history, current_index, history_size, ub, destroys>>

\* The lines of print_command_history: one for each of the slots
\* 0..history_size-1, with the marker in front of the command at
\* current_index, the number i + 1 and the name of the command.
HistoryLines ==
    [i \in 1..history_size |->
        [marker |-> (i - 1 = current_index), number |-> i,
         name |-> command_history[i - 1].name]]

\* print_command_history with a cursor that it uses as its loop variable
\* and leaves at the last slot.
print_command_history_moving ==
    /\ report' = "Command History"
    /\ listing' = [lines |-> HistoryLines,
                   previous |-> IF called = "print_command_history"
                                THEN <<listing.lines>> ELSE <<>>]
    /\ calls' = <<>>
    /\ current_index' = history_size - 1
    /\ UNCHANGED <<editor, command_history, history_size, ub, destroys>>

\* print_command_history: print the header and the lines.  The client
\* keeps the lines, and those of the call before when that was a
\* print_command_history too.
print_command_history ==
    /\ report' = "Command History"
    /\ listing' = [lines |-> HistoryLines,
                   previous |-> IF called = "print_command_history"
                                THEN <<listing.lines>> ELSE <<>>]
    /\ calls' = <<>>
    /\ UNCHANGED <<editor, command_history, current_index, history_size, ub, destroys>>

\* destroy_command_manager: destroy the commands of the slots
\* 0..history_size-1, then free the manager.
destroy_command_manager ==
    /\ destroys' = Destroying({i \in Slots : i < history_size})
    /\ command_history' = [i \in Slots |->
                              IF i < history_size THEN Destroyed ELSE command_history[i]]
    /\ calls' = <<>>
    /\ report' = "destroyed"
    /\ UNCHANGED <<editor, current_index, history_size, ub>>

\* A call that prints no lines after its report.
NoLines == listing' = NoListing

----------------------------------------------------------------------------
\* The calls of a client


\* The ranges [start, start + length) that lie inside a content of len characters.
Ranges(len) == {r \in (0..len) \X Lengths : r[1] + r[2] <= len}

\* The commands a client creates for the current document: every position
\* and every range lies inside the content.
NewCommands ==
    LET len == Len(editor.content) IN
       {create_insert_command(t, p) : t \in Texts, p \in 0..len}
  \cup {create_delete_command(r[1], r[2], f) : r \in Ranges(len), f \in FreshBuffers}
  \cup {create_copy_command(r[1], r[2]) : r \in Ranges(len)}
  \cup {create_paste_command(p) : p \in 0..len}

\* What a client that watches its own calls notes after the call op: the
\* call, and how far an execute directly followed by an undo and then a redo
\* has come, with the editor before the execute and the manager after it.
Track(op) ==
    /\ called' = op
    /\ round' = IF report' = "Executing"
                THEN [stage |-> 1, cmd |-> calls'[1].cmd, before |-> editor,
                      after |-> Snapshot']
                ELSE IF report' = "Undoing" /\ round.stage = 1
                     THEN [round EXCEPT !.stage = 2]
                     ELSE IF report' = "Redoing" /\ round.stage = 2
                          THEN [round EXCEPT !.stage = 3]
                          ELSE NoRound

\* The same client notes how far n execute_command calls of Insert, Delete
\* and Paste commands in a row, then n undo_command calls, then n
\* redo_command calls have come: the content before the first execute and
\* the content after the last.
TrackTrip ==
    trip' =
        IF report' = "Executing"
        THEN IF calls'[1].cmd.name \in {"Insert", "Delete", "Paste"}
             THEN IF trip.phase = "execute"
                  THEN [trip EXCEPT !.n = @ + 1, !.final = editor'.content]
                  ELSE [phase |-> "execute", n |-> 1, k |-> 0,
                        initial |-> editor.content, final |-> editor'.content]
             ELSE NoTrip
        ELSE IF report' = "Undoing" /\ trip.phase = "execute"
             THEN [trip EXCEPT !.phase = "undo", !.k = 1]
        ELSE IF report' = "Undoing" /\ trip.phase = "undo" /\ trip.k < trip.n
             THEN [trip EXCEPT !.k = @ + 1]
        ELSE IF report' = "Redoing" /\ trip.phase = "undo" /\ trip.k = trip.n
             THEN [trip EXCEPT !.phase = "redo", !.k = 1]
        ELSE IF report' = "Redoing" /\ trip.phase = "redo" /\ trip.k < trip.n
             THEN [trip EXCEPT !.k = @ + 1]
        ELSE NoTrip

\* The manager exists and its fields are what the program wrote.
Alive == ~ub /\ called # "destroy_command_manager"

\* execute_command(manager, create_..._command(editor, ...)).
Execute ==
    /\ Alive
    /\ created < MaxCreated
    /\ \E command \in NewCommands : execute_command(command)
    /\ created' = created + 1
    /\ Track("execute_command")
    /\ TrackTrip
    /\ NoLines
    /\ Len(editor'.content) <= MaxContent
    /\ UNCHANGED OutsideManager

\* undo_command(manager).
Undo ==
    /\ Alive
    /\ undo_command
    /\ UNCHANGED created
    /\ Track("undo_command")
    /\ TrackTrip
    /\ NoLines
    /\ Len(editor'.content) <= MaxContent
    /\ UNCHANGED OutsideManager

\* redo_command(manager).
Redo ==
    /\ Alive
    /\ redo_command
    /\ UNCHANGED created
    /\ Track("redo_command")
    /\ TrackTrip
    /\ NoLines
    /\ Len(editor'.content) <= MaxContent
    /\ UNCHANGED OutsideManager

\* print_command_history(manager).
PrintHistory ==
    /\ Alive
    /\ print_command_history
    /\ UNCHANGED created
    /\ Track("print_command_history")
    /\ TrackTrip
    /\ UNCHANGED OutsideManager

\* destroy_command_manager(manager), the last call of a client.
Destroy ==
    /\ Alive
    /\ destroy_command_manager
    /\ UNCHANGED created
    /\ Track("destroy_command_manager")
    /\ TrackTrip
    /\ NoLines
    /\ UNCHANGED OutsideManager

Next == Execute \/ Undo \/ Redo \/ PrintHistory \/ Destroy

----------------------------------------------------------------------------
\* A client that fills the history: it executes Insert "a" at 0 again and
\* again, MAX_COMMANDS + 1 times at most, and undoes and redoes once the
\* history is full.  It keeps no notes of its calls but the last one.

FillCommand == create_insert_command(<<97>>, 0)

FillExecute ==
    /\ ~ub
    /\ created <= MAX_COMMANDS
    /\ execute_command(FillCommand)
    /\ created' = created + 1
    /\ called' = "execute_command"
    /\ UNCHANGED <<round, trip, listing, OutsideManager>>

FillUndo ==
    /\ ~ub
    /\ history_size = MAX_COMMANDS
    /\ undo_command
    /\ UNCHANGED created
    /\ called' = "undo_command"
    /\ UNCHANGED <<round, trip, listing, OutsideManager>>

FillRedo ==
    /\ ~ub
    /\ history_size = MAX_COMMANDS
    /\ redo_command
    /\ UNCHANGED created
    /\ called' = "redo_command"
    /\ UNCHANGED <<round, trip, listing, OutsideManager>>

NextFill == FillExecute \/ FillUndo \/ FillRedo

----------------------------------------------------------------------------
\* Two threads on one CommandManager.  A thread is in one call at a time
\* and runs it one memory access of current_index, command_history and
\* history_size after the other; the effect of a command on the editor is
\* one step.  pc is the access it is at, command the Command* it holds, slot
\* where it loaded it from, i the loop variable of execute_command and idx
\* the value of current_index it read last.  Where the code names
\* manager->current_index again after it read it, a build may load it again
\* or use the value it has: both are possible.

ThreadIds == {1, 2}

NoThread == {}

IdleThread == [pc |-> "idle", command |-> Unset, slot |-> -1, i |-> 0, idx |-> -1,
               others |-> FALSE]

InitThreads ==
    /\ threads = [t \in ThreadIds |-> IdleThread]
    /\ lock = NoThread

\* The return of a call: the thread forgets its locals and lets the lock go.
Return(t) ==
    /\ threads' = [threads EXCEPT ![t] = [IdleThread EXCEPT !.others = threads[t].others]]
    /\ lock' = NoThread

\* A call that goes on to the access pc.
Goto(t, pc) == [threads EXCEPT ![t].pc = pc]

\* A call through a pointer that is no command, or a store before the
\* array: the thread is lost.
Lost ==
    /\ ub' = TRUE
    /\ UNCHANGED <<editor, command_history, current_index, history_size, threads, lock>>

\* The values manager->current_index may have for a thread that has it in a
\* register as well.
Index(held) == {current_index, held}

\* execute_command, access by access.
thread_execute_command(t) ==
    LET th == threads[t] IN
    CASE th.pc = "e_run" ->
           LET r == CommandExecute(th.command, editor)
           IN /\ editor' = r.editor
              /\ threads' = [threads EXCEPT ![t].command = r.cmd, ![t].pc = "e_first"]
              /\ UNCHANGED <<command_history, current_index, history_size, ub, lock>>
      [] th.pc = "e_first" ->
           /\ threads' = [threads EXCEPT ![t].i = current_index + 1, ![t].pc = "e_loop"]
           /\ UNCHANGED <<editor, command_history, current_index, history_size, ub, lock>>
      [] th.pc = "e_loop" ->
           IF th.i < history_size
           THEN IF th.i \in Slots /\ IsCommand(command_history[th.i])
                THEN /\ command_history' = [command_history EXCEPT ![th.i] = Destroyed]
                     /\ threads' = [threads EXCEPT ![t].i = @ + 1]
                     /\ UNCHANGED <<editor, current_index, history_size, ub, lock>>
                ELSE Lost
           ELSE /\ threads' = Goto(t, "e_inc_read")
                /\ UNCHANGED <<editor, command_history, current_index, history_size, ub, lock>>
      [] th.pc = "e_inc_read" ->
           /\ threads' = [threads EXCEPT ![t].idx = current_index, ![t].pc = "e_inc_write"]
           /\ UNCHANGED <<editor, command_history, current_index, history_size, ub, lock>>
      [] th.pc = "e_inc_write" ->
           /\ current_index' = th.idx + 1
           /\ threads' = Goto(t, "e_store")
           /\ UNCHANGED <<editor, command_history, history_size, ub, lock>>
      [] th.pc = "e_store" ->
           \E at \in Index(th.idx + 1) :
              IF at \in Slots
              THEN /\ command_history' = [command_history EXCEPT ![at] = th.command]
                   /\ threads' = Goto(t, "e_size")
                   /\ UNCHANGED <<editor, current_index, history_size, ub, lock>>
              ELSE IF at = MAX_COMMANDS
                   THEN /\ current_index' \in {current_index} \cup PointerLow
                        /\ ub' = TRUE
                        /\ threads' = Goto(t, "e_size")
                        /\ UNCHANGED <<editor, command_history, history_size, lock>>
                   ELSE Lost
      [] th.pc = "e_size" ->
           /\ history_size' \in {at + 1 : at \in Index(th.idx + 1)}
           /\ Return(t)
           /\ UNCHANGED <<editor, command_history, current_index, ub>>

\* undo_command, access by access.
thread_undo_command(t) ==
    LET th == threads[t] IN
    CASE th.pc = "u_test" ->
           IF current_index >= 0
           THEN /\ threads' = [threads EXCEPT ![t].idx = current_index, ![t].pc = "u_load"]
                /\ UNCHANGED <<editor, command_history, current_index, history_size, ub, lock>>
           ELSE /\ Return(t)
                /\ UNCHANGED <<editor, command_history, current_index, history_size, ub>>
      [] th.pc = "u_load" ->
           \E at \in Index(th.idx) :
              IF at \in Slots /\ IsCommand(command_history[at])
              THEN /\ threads' = [threads EXCEPT ![t].command = command_history[at],
                                                 ![t].slot = at, ![t].pc = "u_run"]
                   /\ UNCHANGED <<editor, command_history, current_index, history_size,
                                  ub, lock>>
              ELSE Lost
      [] th.pc = "u_run" ->
           IF IsCommand(command_history[th.slot])
           THEN LET r == CommandUndo(command_history[th.slot], editor)
                IN /\ editor' = r.editor
                   /\ command_history' = [command_history EXCEPT ![th.slot] = r.cmd]
                   /\ threads' = Goto(t, "u_dec_read")
                   /\ UNCHANGED <<current_index, history_size, ub, lock>>
           ELSE Lost
      [] th.pc = "u_dec_read" ->
           /\ threads' = [threads EXCEPT ![t].idx = current_index, ![t].pc = "u_dec_write"]
           /\ UNCHANGED <<editor, command_history, current_index, history_size, ub, lock>>
      [] th.pc = "u_dec_write" ->
           /\ current_index' = th.idx - 1
           /\ Return(t)
           /\ UNCHANGED <<editor, command_history, history_size, ub>>

\* redo_command, access by access.
thread_redo_command(t) ==
    LET th == threads[t] IN
    CASE th.pc = "r_test" ->
           IF current_index + 1 < history_size
           THEN /\ threads' = Goto(t, "r_inc_read")
                /\ UNCHANGED <<editor, command_history, current_index, history_size, ub, lock>>
           ELSE /\ Return(t)
                /\ UNCHANGED <<editor, command_history, current_index, history_size, ub>>
      [] th.pc = "r_inc_read" ->
           /\ threads' = [threads EXCEPT ![t].idx = current_index, ![t].pc = "r_inc_write"]
           /\ UNCHANGED <<editor, command_history, current_index, history_size, ub, lock>>
      [] th.pc = "r_inc_write" ->
           /\ current_index' = th.idx + 1
           /\ threads' = Goto(t, "r_load")
           /\ UNCHANGED <<editor, command_history, history_size, ub, lock>>
      [] th.pc = "r_load" ->
           \E at \in Index(th.idx + 1) :
              IF at \in Slots /\ IsCommand(command_history[at])
              THEN /\ threads' = [threads EXCEPT ![t].command = command_history[at],
                                                 ![t].slot = at, ![t].pc = "r_run"]
                   /\ UNCHANGED <<editor, command_history, current_index, history_size,
                                  ub, lock>>
              ELSE Lost
      [] th.pc = "r_run" ->
           IF IsCommand(command_history[th.slot])
           THEN LET r == CommandExecute(command_history[th.slot], editor)
                IN /\ editor' = r.editor
                   /\ command_history' = [command_history EXCEPT ![th.slot] = r.cmd]
                   /\ Return(t)
                   /\ UNCHANGED <<current_index, history_size, ub>>
           ELSE Lost

\* What a step of a thread leaves alone.
ThreadFrame ==
    UNCHANGED <<calls, report, called, round, destroys, trip, listing, OutsideThreads>>

ExecutePcs == {"e_run", "e_first", "e_loop", "e_inc_read", "e_inc_write", "e_store", "e_size"}
UndoPcs == {"u_test", "u_load", "u_run", "u_dec_read", "u_dec_write"}
RedoPcs == {"r_test", "r_inc_read", "r_inc_write", "r_load", "r_run"}

\* The next access of a thread that is in a call.  After the store behind
\* the array the call still sets history_size; nothing else runs.
ThreadStep ==
    \E t \in ThreadIds :
       /\ ~ub \/ threads[t].pc = "e_size"
       /\ \/ threads[t].pc \in ExecutePcs /\ thread_execute_command(t)
          \/ threads[t].pc \in UndoPcs /\ thread_undo_command(t)
          \/ threads[t].pc \in RedoPcs /\ thread_redo_command(t)
       /\ UNCHANGED created
       /\ ThreadFrame

\* A thread calls a function of the manager: with locked it takes the lock
\* of the manager first, which it gets when nobody holds it.
ThreadCall(t, pc, command, locked) ==
    /\ ~ub
    /\ threads[t].pc = "idle"
    /\ locked => lock = NoThread
    /\ lock' = IF locked THEN {t} ELSE lock
    /\ threads' = [threads EXCEPT ![t].pc = pc, ![t].command = command,
                                  ![t].others = @ \/ pc # "e_run"]
    /\ UNCHANGED <<editor, command_history, current_index, history_size, ub>>
    /\ ThreadFrame

\* The command a racing thread creates: Insert "a" at 0 for thread 1 and
\* Insert "b" at 0 for thread 2.
ThreadCommand(t) == create_insert_command(IF t = 1 THEN <<97>> ELSE <<98>>, 0)

\* Racing threads: no lock.
RaceExecute ==
    /\ created < MaxRaced
    /\ \E t \in ThreadIds : ThreadCall(t, "e_run", ThreadCommand(t), FALSE)
    /\ created' = created + 1

RaceUndo ==
    /\ \E t \in ThreadIds : ThreadCall(t, "u_test", Unset, FALSE)
    /\ UNCHANGED created

RaceRedo ==
    /\ \E t \in ThreadIds : ThreadCall(t, "r_test", Unset, FALSE)
    /\ UNCHANGED created

\* The racing threads take the document to MaxContent characters at most.
RaceStep ==
    /\ ThreadStep
    /\ Len(editor'.content) <= MaxContent

NextRace == RaceExecute \/ RaceUndo \/ RaceRedo \/ RaceStep

\* Threads that make every call behind the lock and fill the history as the
\* filling client does.
LockedExecute ==
    /\ created <= MAX_COMMANDS
    /\ \E t \in ThreadIds : ThreadCall(t, "e_run", FillCommand, TRUE)
    /\ created' = created + 1

LockedUndo ==
    /\ history_size = MAX_COMMANDS
    /\ \E t \in ThreadIds : ThreadCall(t, "u_test", Unset, TRUE)
    /\ UNCHANGED created

LockedRedo ==
    /\ history_size = MAX_COMMANDS
    /\ \E t \in ThreadIds : ThreadCall(t, "r_test", Unset, TRUE)
    /\ UNCHANGED created

NextLocked == LockedExecute \/ LockedUndo \/ LockedRedo \/ ThreadStep

----------------------------------------------------------------------------
\* behavioral/simple_command.c: the Light and its commands.  An effect maps
\* the command object and the light to the command object and the light
\* after it; a function pointer is the name of its function.

\* create_light: off, medium brightness.
create_light == [is_on |-> 0, brightness |-> 50]

create_turn_on_command ==
    [name |-> "Turn On", execute |-> "turn_on_execute", undo |-> "turn_on_undo"]

create_turn_off_command ==
    [name |-> "Turn Off", execute |-> "turn_off_execute", undo |-> "turn_off_undo"]

create_brightness_command(brightness) ==
    [name |-> "Set Brightness", new_brightness |-> brightness, old_brightness |-> 0,
     execute |-> "brightness_execute", undo |-> "brightness_undo"]

turn_on_execute(cmd, l) == [cmd |-> cmd, light |-> [l EXCEPT !.is_on = 1]]

turn_on_undo(cmd, l) == [cmd |-> cmd, light |-> [l EXCEPT !.is_on = 0]]

turn_off_execute(cmd, l) == [cmd |-> cmd, light |-> [l EXCEPT !.is_on = 0]]

turn_off_undo(cmd, l) == [cmd |-> cmd, light |-> [l EXCEPT !.is_on = 1]]

\* brightness_execute: save the brightness for undo, set the new one and
\* turn the light on.
brightness_execute(cmd, l) ==
    [cmd |-> [cmd EXCEPT !.old_brightness = l.brightness],
     light |-> [l EXCEPT !.brightness = cmd.new_brightness, !.is_on = 1]]

\* brightness_undo: restore the saved brightness.
brightness_undo(cmd, l) ==
    [cmd |-> cmd, light |-> [l EXCEPT !.brightness = cmd.old_brightness]]

\* command->execute(command).
ButtonExecute(cmd, l) ==
    CASE cmd.execute = "turn_on_execute"    -> turn_on_execute(cmd, l)
      [] cmd.execute = "turn_off_execute"   -> turn_off_execute(cmd, l)
      [] cmd.execute = "brightness_execute" -> brightness_execute(cmd, l)

\* last_command->undo(last_command).
ButtonUndo(cmd, l) ==
    CASE cmd.undo = "turn_on_undo"    -> turn_on_undo(cmd, l)
      [] cmd.undo = "turn_off_undo"   -> turn_off_undo(cmd, l)
      [] cmd.undo = "brightness_undo" -> brightness_undo(cmd, l)

\* The command objects of main, by the names of its pointers.
ButtonsInit ==
    [turn_on  |-> create_turn_on_command,
     turn_off |-> create_turn_off_command,
     dim      |-> create_brightness_command(25),
     bright   |-> create_brightness_command(90)]

Pointers == DOMAIN ButtonsInit

----------------------------------------------------------------------------
\* behavioral/simple_command.c: the RemoteControl

HistorySlots == 0..(MAX_HISTORY - 1)

\* create_remote: history_count is 0, the slots are what malloc returned.
create_remote == [history |-> [i \in HistorySlots |-> "unset"], history_count |-> 0]

NoPressRound == [stage |-> 0, before |-> [is_on |-> -1, brightness |-> -1]]

NoSession == [before |-> [is_on |-> -1, brightness |-> -1], reused |-> FALSE]

InitRemote ==
    /\ light = create_light
    /\ buttons = ButtonsInit
    /\ remote = create_remote
    /\ pressed = <<>>
    /\ remote_called = "create_remote"
    /\ remote_calls = <<>>
    /\ remote_report = "created"
    /\ presses = 0
    /\ press_round = NoPressRound
    /\ session = NoSession

\* press_button: execute the command, then store it at history_count when
\* history_count < MAX_HISTORY.
press_button(command) ==
    LET r == ButtonExecute(buttons[command], light)
    IN /\ light' = r.light
       /\ buttons' = [buttons EXCEPT ![command] = r.cmd]
       /\ remote_calls' = <<[fn |-> "execute", cmd |-> command]>>
       /\ remote_report' = "Pressing"
       /\ remote' = IF remote.history_count < MAX_HISTORY
                    THEN [remote EXCEPT !.history[remote.history_count] = command,
                                        !.history_count = @ + 1]
                    ELSE remote

\* press_undo calling the undo of the oldest command of the history.
press_undo_oldest ==
    IF remote.history_count > 0
    THEN LET last_command == remote.history[0]
             r == ButtonUndo(buttons[last_command], light)
         IN /\ light' = r.light
            /\ buttons' = [buttons EXCEPT ![last_command] = r.cmd]
            /\ remote_calls' = <<[fn |-> "undo", cmd |-> last_command]>>
            /\ remote_report' = "Pressing UNDO"
            /\ remote' = [remote EXCEPT !.history_count = @ - 1]
    ELSE /\ remote_calls' = <<>>
         /\ remote_report' = "Nothing to undo"
         /\ UNCHANGED <<light, buttons, remote>>

\* press_undo: with history_count > 0 call the undo of the command at
\* history_count - 1 and decrement history_count; otherwise print that
\* there is nothing to undo.
press_undo ==
    IF remote.history_count > 0
    THEN LET last_command == remote.history[remote.history_count - 1]
             r == ButtonUndo(buttons[last_command], light)
         IN /\ light' = r.light
            /\ buttons' = [buttons EXCEPT ![last_command] = r.cmd]
            /\ remote_calls' = <<[fn |-> "undo", cmd |-> last_command]>>
            /\ remote_report' = "Pressing UNDO"
            /\ remote' = [remote EXCEPT !.history_count = @ - 1]
    ELSE /\ remote_calls' = <<>>
         /\ remote_report' = "Nothing to undo"
         /\ UNCHANGED <<light, buttons, remote>>

\* What a client that watches its own calls notes after the call op: the
\* call, the commands it pressed and saw no undo of yet, how far a
\* press_button directly followed by a press_undo has come, with the light
\* before the press, and, for the presses since it had nothing left to undo,
\* the light before the first of them and whether one of them pressed a
\* command object that was pressed before and not undone yet.
TrackPress(op) ==
    /\ remote_called' = op
    /\ pressed' = IF op = "press_button"
                  THEN Append(pressed, remote_calls'[1].cmd)
                  ELSE IF remote_calls' # <<>> /\ pressed # <<>>
                       THEN SubSeq(pressed, 1, Len(pressed) - 1)
                       ELSE pressed
    /\ press_round' = IF op = "press_button"
                      THEN [stage |-> 1, before |-> light]
                      ELSE IF press_round.stage = 1 /\ remote_calls' # <<>>
                           THEN [press_round EXCEPT !.stage = 2]
                           ELSE NoPressRound
    /\ session' = IF op = "press_button"
                  THEN IF pressed = <<>>
                       THEN [before |-> light, reused |-> FALSE]
                       ELSE [session EXCEPT !.reused =
                                @ \/ \E i \in 1..Len(pressed) :
                                         pressed[i] = remote_calls'[1].cmd]
                  ELSE IF remote_calls' # <<>> THEN session ELSE NoSession

\* press_button(remote, command) for one of the commands of main.
PressButton ==
    /\ presses < MaxPresses
    /\ \E command \in Pointers : press_button(command)
    /\ presses' = presses + 1
    /\ TrackPress("press_button")
    /\ UNCHANGED OutsideRemote

\* press_undo(remote).
PressUndo ==
    /\ press_undo
    /\ UNCHANGED presses
    /\ TrackPress("press_undo")
    /\ UNCHANGED OutsideRemote

NextRemote == PressButton \/ PressUndo

\* A client that fills the history of the remote: it presses Turn On and
\* Turn Off, MAX_HISTORY + 1 times at most, and presses undo once it has
\* pressed MAX_HISTORY buttons.
FillButtons == {"turn_on", "turn_off"}

FillPress ==
    /\ presses <= MAX_HISTORY
    /\ \E command \in FillButtons : press_button(command)
    /\ presses' = presses + 1
    /\ TrackPress("press_button")
    /\ UNCHANGED OutsideRemote

FillPressUndo ==
    /\ presses >= MAX_HISTORY
    /\ press_undo
    /\ UNCHANGED presses
    /\ TrackPress("press_undo")
    /\ UNCHANGED OutsideRemote

NextRemoteFill == FillPress \/ FillPressUndo

----------------------------------------------------------------------------
\* unnamed/part_004: the singleton Logger

NULL == 0

\* The blocks malloc can return for a Logger.
Blocks == {1, 2}

Free == [free |-> TRUE]

MessageIndex == 0..(MessageSlots - 1)

\* What get_logger_instance writes into the block malloc returned: the
\* messages are not written.
NewLogger ==
    [log_file |-> "application.log", log_level |-> 1,
     messages |-> [i \in MessageIndex |-> "unset"], message_count |-> 0]

Refs == {"logger1", "logger2"}

NoCall == [fn |-> "none", ref |-> "none", level |-> 0, message |-> "none",
           returned |-> NULL]

InitLogger ==
    /\ logger_instance = NULL
    /\ logger_heap = [b \in Blocks |-> Free]
    /\ refs = [r \in Refs |-> NULL]
    /\ since = {}
    /\ logger_called = NoCall
    /\ logger_report = "none"
    /\ instances = 0
    /\ log_calls = 0

\* get_logger_instance that creates a Logger on every call.
get_logger_instance_fresh(r) ==
    \E b \in Blocks :
        /\ logger_heap[b] = Free
        /\ logger_instance' = b
        /\ logger_heap' = [logger_heap EXCEPT ![b] = NewLogger]
        /\ instances' = instances + 1
        /\ logger_report' = "Logger instance created!"
        /\ refs' = [refs EXCEPT ![r] = b]
        /\ logger_called' = [NoCall EXCEPT !.fn = "get_logger_instance", !.ref = r,
                                           !.returned = b]

\* r = get_logger_instance(): with logger_instance NULL, malloc a Logger,
\* initialize it and keep it in logger_instance; return logger_instance.
get_logger_instance(r) ==
    IF logger_instance = NULL
    THEN \E b \in Blocks :
            /\ logger_heap[b] = Free
            /\ logger_instance' = b
            /\ logger_heap' = [logger_heap EXCEPT ![b] = NewLogger]
            /\ instances' = instances + 1
            /\ logger_report' = "Logger instance created!"
            /\ refs' = [refs EXCEPT ![r] = b]
            /\ logger_called' = [NoCall EXCEPT !.fn = "get_logger_instance", !.ref = r,
                                               !.returned = b]
    ELSE /\ UNCHANGED <<logger_instance, logger_heap, instances>>
         /\ logger_report' = "none"
         /\ refs' = [refs EXCEPT ![r] = logger_instance]
         /\ logger_called' = [NoCall EXCEPT !.fn = "get_logger_instance", !.ref = r,
                                            !.returned = logger_instance]

\* log_message that tests message_count <= 10: it stores an eleventh
\* message.
log_message_eleven(logger, message) ==
    LET count == logger_heap[logger].message_count
    IN IF count <= MessageSlots
       THEN /\ logger_heap' = [logger_heap EXCEPT ![logger].messages =
                                                     (count :> message) @@ @,
                                                  ![logger].message_count = count + 1]
            /\ logger_report' = "LOG"
       ELSE /\ logger_report' = "Warning: Message storage full, message not stored"
            /\ UNCHANGED logger_heap

\* log_message(logger, message): print the message; store it at
\* message_count when message_count < 10, otherwise print the warning.
log_message(logger, message) ==
    LET count == logger_heap[logger].message_count
    IN IF count < MessageSlots
       THEN /\ logger_heap' = [logger_heap EXCEPT ![logger].messages[count] = message,
                                                  ![logger].message_count = count + 1]
            /\ logger_report' = "LOG"
       ELSE /\ logger_report' = "Warning: Message storage full, message not stored"
            /\ UNCHANGED logger_heap

\* set_log_level(logger, level).
set_log_level(logger, level) ==
    /\ logger_heap' = [logger_heap EXCEPT ![logger].log_level = level]
    /\ logger_report' = "Log level set"

\* destroy_logger: free the Logger and reset logger_instance, when there
\* is one.
destroy_logger ==
    IF logger_instance # NULL
    THEN /\ logger_heap' = [logger_heap EXCEPT ![logger_instance] = Free]
         /\ logger_instance' = NULL
         /\ logger_report' = "Logger instance destroyed!"
    ELSE /\ logger_report' = "none"
         /\ UNCHANGED <<logger_instance, logger_heap>>

\* The pointers of the client that point to a Logger.
Valid == {r \in Refs : refs[r] # NULL /\ logger_heap[refs[r]] # Free}

\* The levels a client sets and the message of its k-th log_message call.
Levels == {0, 1, 3}
Message(k) == <<"log message", k>>

\* logger1 = get_logger_instance() and logger2 = get_logger_instance().
GetLogger ==
    /\ logger_instance # NULL \/ instances < MaxLoggers
    /\ \E r \in Refs :
          /\ get_logger_instance(r)
          /\ since' = since \cup {r}
    /\ UNCHANGED log_calls
    /\ UNCHANGED OutsideLogger

\* log_message(r, ...) through a pointer to a Logger.
LogMessage ==
    /\ log_calls <= MessageSlots
    /\ \E r \in Valid :
          /\ log_message(refs[r], Message(log_calls + 1))
          /\ logger_called' = [NoCall EXCEPT !.fn = "log_message", !.ref = r,
                                             !.message = Message(log_calls + 1)]
    /\ log_calls' = log_calls + 1
    /\ UNCHANGED <<logger_instance, refs, since, instances>>
    /\ UNCHANGED OutsideLogger

\* set_log_level(r, level) through a pointer to a Logger.
SetLogLevel ==
    /\ \E r \in Valid, level \in Levels :
          /\ set_log_level(refs[r], level)
          /\ logger_called' = [NoCall EXCEPT !.fn = "set_log_level", !.ref = r,
                                             !.level = level]
    /\ UNCHANGED <<logger_instance, refs, since, instances, log_calls>>
    /\ UNCHANGED OutsideLogger

\* destroy_logger().
DestroyLogger ==
    /\ destroy_logger
    /\ since' = {}
    /\ logger_called' = [NoCall EXCEPT !.fn = "destroy_logger"]
    /\ UNCHANGED <<refs, instances, log_calls>>
    /\ UNCHANGED OutsideLogger

NextLogger == GetLogger \/ LogMessage \/ SetLogLevel \/ DestroyLogger

----------------------------------------------------------------------------
\* behavioral/simple_observer.c: the weather station and its subscribers.
\* An observer is the name of the pointer main keeps to it.

\* create_weather_station: no observers, status "Unknown"; the slots are
\* what malloc returned.
create_weather_station ==
    [observers |-> [i \in 0..(MAX_OBSERVERS - 1) |-> "unset"], observer_count |-> 0,
     current_status |-> "Unknown"]

\* subscribe: store the observer at observer_count when there is room.
subscribe(self, observer) ==
    IF self.observer_count < MAX_OBSERVERS
    THEN [self EXCEPT !.observers[self.observer_count] = observer,
                      !.observer_count = @ + 1]
    ELSE self

\* The list after the loop that moves everyone behind slot i down by one.
MoveDown(observers, i, count) ==
    [j \in DOMAIN observers |->
        IF j >= i /\ j < count - 1 THEN observers[j + 1] ELSE observers[j]]

\* The first slot below count that holds the observer; count when none
\* does.
FirstSlot(observers, count, observer) ==
    IF \E i \in 0..(count - 1) : observers[i] = observer
    THEN CHOOSE i \in 0..(count - 1) :
            /\ observers[i] = observer
            /\ \A j \in 0..(i - 1) : observers[j] # observer
    ELSE count

\* unsubscribe: at the first slot that holds the observer move the rest
\* down, decrement observer_count and return.
unsubscribe(self, observer) ==
    LET i == FirstSlot(self.observers, self.observer_count, observer)
    IN IF i < self.observer_count
       THEN [self EXCEPT !.observers = MoveDown(@, i, self.observer_count),
                         !.observer_count = @ - 1]
       ELSE self

\* notify_all: keep the message as current_status.
notify_all(self, message) == [self EXCEPT !.current_status = message]

\* The observers whose notify (update) a notification calls, in order.
Notified(self) == [i \in 1..self.observer_count |-> self.observers[i - 1]]

----------------------------------------------------------------------------
\* behavioral/observer.c: the news agency and its observers

\* create_news_agency.
create_news_agency ==
    [observers |-> [i \in 0..(NEWS_MAX_OBSERVERS - 1) |-> "unset"], observer_count |-> 0,
     state |-> "No news yet", latest_news |-> "No news yet"]

\* news_agency_attach.
news_agency_attach(self, observer) ==
    IF self.observer_count < NEWS_MAX_OBSERVERS
    THEN [self EXCEPT !.observers[self.observer_count] = observer,
                      !.observer_count = @ + 1]
    ELSE self

\* news_agency_detach.
news_agency_detach(self, observer) ==
    LET i == FirstSlot(self.observers, self.observer_count, observer)
    IN IF i < self.observer_count
       THEN [self EXCEPT !.observers = MoveDown(@, i, self.observer_count),
                         !.observer_count = @ - 1]
       ELSE self

\* news_agency_set_state: keep the news, then news_agency_notify.
news_agency_set_state(self, new_state) ==
    [self EXCEPT !.state = new_state, !.latest_news = new_state]

----------------------------------------------------------------------------
\* The calls of the clients of the two subjects

Subscribers == {"alice_email", "bob_phone"}
Channels == {"cnn", "john_email"}
Weather == {"Rain incoming!"}
News == {"Tesla unveils fully autonomous driving system!"}

InitObserver ==
    /\ subject = create_weather_station
    /\ agency = create_news_agency
    /\ delivered = <<>>
    /\ stopped = {}
    /\ observer_called = [fn |-> "create", on |-> "none"]

Subscribe ==
    /\ \E o \in Subscribers :
          /\ subject' = subscribe(subject, o)
          /\ stopped' = stopped \ {o}
    /\ delivered' = <<>>
    /\ observer_called' = [fn |-> "subscribe", on |-> "subject"]
    /\ UNCHANGED agency
    /\ UNCHANGED OutsideObserver

Unsubscribe ==
    /\ \E o \in Subscribers :
          /\ subject' = unsubscribe(subject, o)
          /\ stopped' = stopped \cup {o}
    /\ delivered' = <<>>
    /\ observer_called' = [fn |-> "unsubscribe", on |-> "subject"]
    /\ UNCHANGED agency
    /\ UNCHANGED OutsideObserver

NotifyAll ==
    /\ \E message \in Weather : subject' = notify_all(subject, message)
    /\ delivered' = Notified(subject)
    /\ observer_called' = [fn |-> "notify_all", on |-> "subject"]
    /\ UNCHANGED <<agency, stopped>>
    /\ UNCHANGED OutsideObserver

Attach ==
    /\ agency.observer_count < MaxAttached
    /\ \E o \in Channels :
          /\ agency' = news_agency_attach(agency, o)
          /\ stopped' = stopped \ {o}
    /\ delivered' = <<>>
    /\ observer_called' = [fn |-> "attach", on |-> "agency"]
    /\ UNCHANGED subject
    /\ UNCHANGED OutsideObserver

Detach ==
    /\ \E o \in Channels :
          /\ agency' = news_agency_detach(agency, o)
          /\ stopped' = stopped \cup {o}
    /\ delivered' = <<>>
    /\ observer_called' = [fn |-> "detach", on |-> "agency"]
    /\ UNCHANGED subject
    /\ UNCHANGED OutsideObserver

SetState ==
    /\ \E new_state \in News : agency' = news_agency_set_state(agency, new_state)
    /\ delivered' = Notified(agency)
    /\ observer_called' = [fn |-> "set_state", on |-> "agency"]
    /\ UNCHANGED <<subject, stopped>>
    /\ UNCHANGED OutsideObserver

NextObserver == Subscribe \/ Unsubscribe \/ NotifyAll

NextNews == Attach \/ Detach \/ SetState

----------------------------------------------------------------------------
\* behavioral/simple_state.c: the traffic light.  A State* is the name of
\* the State object it points to.

\* The State objects: name, color and the handle_next function.
States ==
    [red_state       |-> [name |-> "Red State", color |-> "red",
                          handle_next |-> "red_handle_next"],
     yellow_state    |-> [name |-> "Yellow State", color |-> "yellow",
                          handle_next |-> "yellow_handle_next"],
     green_state     |-> [name |-> "Green State", color |-> "green",
                          handle_next |-> "green_handle_next"],
     walk_state      |-> [name |-> "Walk", color |-> "green",
                          handle_next |-> "walk_handle_next"],
     dont_walk_state |-> [name |-> "Don't Walk", color |-> "red",
                          handle_next |-> "dont_walk_handle_next"]]

\* traffic_light_set_state.
traffic_light_set_state(tl, new_state) == [tl EXCEPT !.current_state = new_state]

red_handle_next(tl) == traffic_light_set_state(tl, "green_state")

\* yellow_handle_next that goes back to green.
yellow_handle_next_green(tl) == traffic_light_set_state(tl, "green_state")

yellow_handle_next(tl) == traffic_light_set_state(tl, "red_state")

green_handle_next(tl) == traffic_light_set_state(tl, "yellow_state")

walk_handle_next(tl) == traffic_light_set_state(tl, "dont_walk_state")

dont_walk_handle_next(tl) == traffic_light_set_state(tl, "walk_state")

\* light->current_state->handle_next(light).
HandleNext(tl) ==
    LET f == States[tl.current_state].handle_next
    IN CASE f = "red_handle_next"       -> red_handle_next(tl)
         [] f = "yellow_handle_next"    -> yellow_handle_next(tl)
         [] f = "green_handle_next"     -> green_handle_next(tl)
         [] f = "walk_handle_next"      -> walk_handle_next(tl)
         [] f = "dont_walk_handle_next" -> dont_walk_handle_next(tl)

\* traffic_light_next: let the current state handle it, then count.
traffic_light_next(tl) == [HandleNext(tl) EXCEPT !.cycle_count = @ + 1]

\* create_traffic_light: red, no cycles.
create_traffic_light == [current_state |-> "red_state", cycle_count |-> 0]

\* The lights of main.
LightNames == {"intersection", "crosswalk"}

InitTraffic ==
    /\ lights = [l \in LightNames |-> create_traffic_light]
    /\ next_calls = [l \in LightNames |-> 0]
    /\ light_called = [fn |-> "create_traffic_light", light |-> "none"]

\* traffic_light_next(l) for a light of main.
TrafficLightNext(l) ==
    /\ lights[l].cycle_count < MaxCycles
    /\ lights' = [lights EXCEPT ![l] = traffic_light_next(@)]
    /\ next_calls' = [next_calls EXCEPT ![l] = @ + 1]
    /\ light_called' = [fn |-> "traffic_light_next", light |-> l]
    /\ UNCHANGED OutsideTraffic

\* traffic_light_next(intersection).
IntersectionNext == TrafficLightNext("intersection")

\* traffic_light_next(crosswalk).
CrosswalkNext == TrafficLightNext("crosswalk")

\* traffic_light_set_state(crosswalk, &dont_walk_state).
CrosswalkSetState ==
    /\ lights["crosswalk"].current_state # "dont_walk_state"
    /\ lights' = [lights EXCEPT !["crosswalk"] = traffic_light_set_state(@, "dont_walk_state")]
    /\ light_called' = [fn |-> "traffic_light_set_state", light |-> "crosswalk"]
    /\ UNCHANGED next_calls
    /\ UNCHANGED OutsideTraffic

NextTraffic == IntersectionNext \/ CrosswalkNext \/ CrosswalkSetState

----------------------------------------------------------------------------
\* unnamed/part_003: the chain of request handlers.  A Handler* is the name
\* of the pointer main keeps, NoHandler is the NULL pointer; an amount is a
\* number of dollars.

NoHandler == "NULL"

create_help_desk_agent ==
    [name |-> "Help Desk Agent", max_priority |-> 2, next_handler |-> NoHandler,
     handle_request |-> "help_desk_handle_request", tickets_handled_today |-> 0]

create_system_administrator ==
    [name |-> "System Administrator", max_priority |-> 3, next_handler |-> NoHandler,
     handle_request |-> "sysadmin_handle_request", servers_managed |-> 25]

create_it_manager(budget_authority) ==
    [name |-> "IT Manager", max_priority |-> 4, next_handler |-> NoHandler,
     handle_request |-> "it_manager_handle_request", budget_authority |-> budget_authority]

create_cto ==
    [name |-> "Chief Technology Officer", max_priority |-> 4, next_handler |-> NoHandler,
     handle_request |-> "cto_handle_request", budget_authority |-> 1000000]

\* handler_set_next.
handler_set_next(hs, self, next) == [hs EXCEPT ![self].next_handler = next]

\* What a handle_request call gives: the handlers after it, the handlers
\* that received the request and how it ended.
Ended(hs, self, result) ==
    [handlers |-> hs, route |-> <<self>>, outcome |-> [by |-> self, result |-> result]]

RECURSIVE HandleRequest(_, _, _)

\* The else branch of a handler: pass the request to next_handler, or
\* report that there is none.
Escalate(self, request, hs) ==
    IF hs[self].next_handler # NoHandler
    THEN LET r == HandleRequest(hs[self].next_handler, request, hs)
         IN [r EXCEPT !.route = <<self>> \o @]
    ELSE Ended(hs, self, "No more handlers in chain")

help_desk_handle_request(self, request, hs) ==
    IF /\ request.priority <= hs[self].max_priority
       /\ request.type \in {"password_reset", "software_install", "basic_support"}
    THEN Ended([hs EXCEPT ![self].tickets_handled_today = @ + 1], self, "handled")
    ELSE Escalate(self, request, hs)

sysadmin_handle_request(self, request, hs) ==
    IF /\ request.priority <= hs[self].max_priority
       /\ request.type \in {"server_issue", "network_problem", "database_access",
                             "software_install"}
    THEN Ended(hs, self, "handled")
    ELSE Escalate(self, request, hs)

\* it_manager_handle_request: within max_priority a budget_approval is
\* approved up to budget_authority and passed on above it (to nobody, and
\* without a report, when there is no next handler), and every other
\* request is handled; beyond max_priority the request is escalated.
it_manager_handle_request(self, request, hs) ==
    IF request.priority <= hs[self].max_priority
    THEN IF request.type = "budget_approval"
         THEN IF request.amount <= hs[self].budget_authority
              THEN Ended(hs, self, "approved")
              ELSE IF hs[self].next_handler # NoHandler
                   THEN LET r == HandleRequest(hs[self].next_handler, request, hs)
                        IN [r EXCEPT !.route = <<self>> \o @]
                   ELSE Ended(hs, self, "cannot approve")
         ELSE Ended(hs, self, "handled")
    ELSE Escalate(self, request, hs)

\* cto_handle_request: the CTO handles anything.
cto_handle_request(self, request, hs) == Ended(hs, self, "handled")

\* self->handle_request(self, request).
HandleRequest(self, request, hs) ==
    LET f == hs[self].handle_request
    IN CASE f = "help_desk_handle_request"  -> help_desk_handle_request(self, request, hs)
         [] f = "sysadmin_handle_request"   -> sysadmin_handle_request(self, request, hs)
         [] f = "it_manager_handle_request" -> it_manager_handle_request(self, request, hs)
         [] f = "cto_handle_request"        -> cto_handle_request(self, request, hs)

\* The handlers of main.
HandlersInit ==
    [help_desk  |-> create_help_desk_agent,
     sysadmin   |-> create_system_administrator,
     it_manager |-> create_it_manager(10000),
     cto        |-> create_cto]

\* The set_next calls of main: the three that build the chain and the one
\* that takes the system administrator out of it.
Links == {<<"help_desk", "sysadmin">>, <<"sysadmin", "it_manager">>,
          <<"it_manager", "cto">>, <<"help_desk", "it_manager">>}

\* The handlers main hands a request to.
Entries == {"help_desk", "it_manager"}

\* The requests of a client: type, priority 1 (low) to 4 (critical) and
\* amount.
RequestTypes == {"password_reset", "software_install", "server_issue",
                 "budget_approval", "security_breach", "policy_change"}
Amounts == {0, 5000, 50000}
Requests == [type : RequestTypes, priority : 1..4, amount : Amounts]

NoRequest == [type |-> "none", priority |-> 0, amount |-> 0]

InitChain ==
    /\ handlers = HandlersInit
    /\ chain_called = [fn |-> "create", self |-> "none", request |-> NoRequest]
    /\ route = <<>>
    /\ outcome = [by |-> "none", result |-> "none"]

\* self->set_next(self, next).
SetNext ==
    /\ \E link \in Links :
          /\ handlers' = handler_set_next(handlers, link[1], link[2])
          /\ chain_called' = [fn |-> "set_next", self |-> link[1], request |-> NoRequest]
    /\ route' = <<>>
    /\ outcome' = [by |-> "none", result |-> "none"]
    /\ UNCHANGED OutsideChain

\* self->handle_request(self, &request).
Handle ==
    /\ handlers["help_desk"].tickets_handled_today < MaxTickets
    /\ \E self \in Entries, request \in Requests :
          LET r == HandleRequest(self, request, handlers)
          IN /\ handlers' = r.handlers
             /\ route' = r.route
             /\ outcome' = r.outcome
             /\ chain_called' = [fn |-> "handle_request", self |-> self, request |-> request]
    /\ UNCHANGED OutsideChain

NextChain == SetNext \/ Handle

----------------------------------------------------------------------------
\* behavioral/simple_strategy.c: the vending machine.  A State* is the State
\* object it points to, a function pointer the name of its function.  A
\* handler maps what the call has done so far (the machine, the states
\* set_state has set, the stock decrements and the last message) to what it
\* has done after it.

ProductIndex == 0..4

\* The largest int, and the sum of two ints as a build that wraps computes
\* it; a sum beyond the ints is a signed overflow.
INT_MAX == 2147483647

Overflows(a, b) ==
    \/ b > 0 /\ a > INT_MAX - b
    \/ b < 0 /\ a < (-INT_MAX - 1) - b

Plus(a, b) ==
    IF b > 0 /\ a > INT_MAX - b THEN ((a - INT_MAX) - 1) + ((b - INT_MAX) - 1)
    ELSE IF b < 0 /\ a < (-INT_MAX - 1) - b THEN ((a + INT_MAX) + 1) + ((b + INT_MAX) + 1)
    ELSE a + b

get_idle_state ==
    [name |-> "Idle", insert_coin |-> "idle_insert_coin",
     select_product |-> "idle_select_product", dispense |-> "idle_dispense",
     cancel |-> "idle_cancel"]

get_coin_inserted_state ==
    [name |-> "Coin Inserted", insert_coin |-> "coin_inserted_insert_coin",
     select_product |-> "coin_inserted_select_product",
     dispense |-> "coin_inserted_dispense", cancel |-> "coin_inserted_cancel"]

get_product_selected_state ==
    [name |-> "Product Selected", insert_coin |-> "product_selected_insert_coin",
     select_product |-> "product_selected_select_product",
     dispense |-> "product_selected_dispense", cancel |-> "product_selected_cancel"]

get_dispensing_state ==
    [name |-> "Dispensing", insert_coin |-> "dispensing_insert_coin",
     select_product |-> "dispensing_select_product", dispense |-> "dispensing_dispense",
     cancel |-> "dispensing_cancel"]

get_out_of_order_state ==
    [name |-> "Out of Order", insert_coin |-> "out_of_order_insert_coin",
     select_product |-> "out_of_order_select_product",
     dispense |-> "out_of_order_dispense", cancel |-> "out_of_order_cancel"]

\* create_vending_machine: idle, no money, no selection, five products
\* with a stock of 5 each.
create_vending_machine ==
    [current_state |-> get_idle_state,
     inserted_amount |-> 0,
     selected_product_price |-> 0,
     selected_product_name |-> "",
     product_stock |-> [i \in ProductIndex |-> 5],
     product_names |-> (0 :> "Coke" @@ 1 :> "Pepsi" @@ 2 :> "Water" @@ 3 :> "Chips"
                          @@ 4 :> "Candy"),
     product_prices |-> (0 :> 150 @@ 1 :> 150 @@ 2 :> 100 @@ 3 :> 200 @@ 4 :> 125)]

\* A call that has done nothing yet, and a handler that only prints.
Began(m) ==
    [machine |-> m, states |-> <<>>, sold |-> <<>>, said |-> "none", ub |-> FALSE]

Says(r, text) == [r EXCEPT !.said = text]

\* vending_machine_set_state.
vending_machine_set_state(r, state) ==
    [r EXCEPT !.machine.current_state = state, !.states = Append(@, state.name)]

\* machine->inserted_amount += amount.
Inserted(r, amount) ==
    [r EXCEPT !.machine.inserted_amount = Plus(@, amount),
              !.ub = @ \/ Overflows(r.machine.inserted_amount, amount)]

idle_insert_coin(r, amount) ==
    vending_machine_set_state(Says(Inserted(r, amount), "Inserted"),
                              get_coin_inserted_state)

coin_inserted_insert_coin(r, amount) == Says(Inserted(r, amount), "Inserted")

\* coin_inserted_select_product: refuse an id outside 1..5, a product out
\* of stock and a price above inserted_amount; otherwise note name and
\* price of the product and go to Product Selected.
coin_inserted_select_product(r, product_id) ==
    LET m == r.machine
        index == product_id - 1
    IN IF product_id < 1 \/ product_id > 5
       THEN Says(r, "Invalid product selection")
       ELSE IF m.product_stock[index] = 0
       THEN Says(r, "out of stock")
       ELSE IF m.inserted_amount < m.product_prices[index]
       THEN Says(r, "Insufficient funds")
       ELSE vending_machine_set_state(
                Says([r EXCEPT !.machine.selected_product_name = m.product_names[index],
                               !.machine.selected_product_price = m.product_prices[index]],
                     "Selected"),
                get_product_selected_state)

coin_inserted_cancel(r) ==
    vending_machine_set_state(
        Says([r EXCEPT !.machine.inserted_amount = 0], "Returning"), get_idle_state)

product_selected_insert_coin(r, amount) ==
    Says(Inserted(r, amount), "Inserted additional")

product_selected_cancel(r) ==
    vending_machine_set_state(
        Says([r EXCEPT !.machine.inserted_amount = 0,
                       !.machine.selected_product_name = "",
                       !.machine.selected_product_price = 0], "Returning"),
        get_idle_state)

\* dispensing_dispense: decrement the stock of the first product with the
\* selected name, compute the change, reset money and selection and go to
\* Idle.
dispensing_dispense(r) ==
    LET m == r.machine
        found == {i \in ProductIndex : m.product_names[i] = m.selected_product_name}
        first == CHOOSE i \in found : \A j \in found : i <= j
        change == Plus(m.inserted_amount, -m.selected_product_price)
    IN vending_machine_set_state(
           [r EXCEPT !.machine.product_stock =
                         IF found = {} THEN @ ELSE [@ EXCEPT ![first] = @ - 1],
                     !.machine.inserted_amount = 0,
                     !.machine.selected_product_name = "",
                     !.machine.selected_product_price = 0,
                     !.sold = IF found = {} THEN @
                              ELSE Append(@, [index |-> first,
                                              stock |-> m.product_stock[first],
                                              paid |-> m.inserted_amount,
                                              price |-> m.selected_product_price,
                                              change |-> change]),
                     !.said = IF change > 0 THEN "Dispensing change" ELSE "Enjoy",
                     !.ub = @ \/ Overflows(m.inserted_amount, -m.selected_product_price)],
           get_idle_state)

\* machine->current_state->insert_coin(machine->current_state, machine, amount).
StateInsertCoin(r, amount) ==
    LET f == r.machine.current_state.insert_coin
    IN CASE f = "idle_insert_coin"             -> idle_insert_coin(r, amount)
         [] f = "coin_inserted_insert_coin"    -> coin_inserted_insert_coin(r, amount)
         [] f = "product_selected_insert_coin" -> product_selected_insert_coin(r, amount)
         [] f = "dispensing_insert_coin"       -> Says(r, "Please wait, dispensing in progress")
         [] f = "out_of_order_insert_coin"     -> Says(r, "Machine is out of order")

\* machine->current_state->select_product(machine->current_state, machine, product_id).
StateSelectProduct(r, product_id) ==
    LET f == r.machine.current_state.select_product
    IN CASE f = "idle_select_product"          -> Says(r, "Please insert coins first")
         [] f = "coin_inserted_select_product" -> coin_inserted_select_product(r, product_id)
         [] f = "product_selected_select_product" -> Says(r, "Product already selected")
         [] f = "dispensing_select_product"    -> Says(r, "Please wait, dispensing in progress")
         [] f = "out_of_order_select_product"  -> Says(r, "Machine is out of order")

\* product_selected_dispense that does not call dispense of the new state.
product_selected_dispense_waiting(r) ==
    vending_machine_set_state(r, get_dispensing_state)

\* product_selected_dispense: go to Dispensing and call its dispense, which
\* is dispensing_dispense.
product_selected_dispense(r) ==
    LET d == vending_machine_set_state(r, get_dispensing_state)
        f == d.machine.current_state.dispense
    IN CASE f = "dispensing_dispense" -> dispensing_dispense(d)

\* machine->current_state->dispense(machine->current_state, machine).
StateDispense(r) ==
    LET f == r.machine.current_state.dispense
    IN CASE f = "idle_dispense"             -> Says(r, "No product selected")
         [] f = "coin_inserted_dispense"    -> Says(r, "Please select a product first")
         [] f = "product_selected_dispense" -> product_selected_dispense(r)
         [] f = "dispensing_dispense"       -> dispensing_dispense(r)
         [] f = "out_of_order_dispense"     -> Says(r, "Machine is out of order")

\* machine->current_state->cancel(machine->current_state, machine).
StateCancel(r) ==
    LET f == r.machine.current_state.cancel
    IN CASE f = "idle_cancel"             -> Says(r, "Nothing to cancel")
         [] f = "coin_inserted_cancel"    -> coin_inserted_cancel(r)
         [] f = "product_selected_cancel" -> product_selected_cancel(r)
         [] f = "dispensing_cancel"       -> Says(r, "Cannot cancel while dispensing")
         [] f = "out_of_order_cancel"     -> Says(r, "Machine is out of order")

\* The positive amounts a client inserts and the product ids it selects:
\* Coke, Water and Chips, and the two ids next to 1..5.
Coins == {50, 100, INT_MAX}
ProductIds == {0, 1, 3, 4, 6}

InitVending ==
    /\ machine = create_vending_machine
    /\ vend_called = [fn |-> "create_vending_machine", arg |-> 0]
    /\ vend_result = [states |-> <<>>, sold |-> <<>>, said |-> "none"]

\* What the call fn(arg) that ended as r leaves.  A call with a signed
\* overflow returns with the wrapped sums, or the program is aborted in it
\* (a build that traps) and makes no further call.
Ends(fn, arg, r) ==
    /\ vend_called.fn # "abort"
    /\ \/ /\ machine' = r.machine
          /\ vend_called' = [fn |-> fn, arg |-> arg]
          /\ vend_result' = [states |-> r.states, sold |-> r.sold, said |-> r.said]
       \/ /\ r.ub
          /\ machine' = machine
          /\ vend_called' = [fn |-> "abort", arg |-> arg]
          /\ vend_result' = [states |-> <<>>, sold |-> <<>>, said |-> "none"]
    /\ UNCHANGED OutsideVending

\* The client inserts an amount that keeps inserted_amount within
\* MaxInserted, or INT_MAX, or an amount that overflows inserted_amount.
InsertCoin ==
    \E amount \in Coins :
       /\ machine.inserted_amount >= 0
       /\ \/ amount = INT_MAX
          \/ Overflows(machine.inserted_amount, amount)
          \/ machine.inserted_amount <= MaxInserted - amount
       /\ Ends("insert_coin", amount, StateInsertCoin(Began(machine), amount))

\* insert_coin takes any int: a client that inserts a negative amount.
InsertNegative ==
    \E amount \in {-100} :
       /\ machine.inserted_amount \in 0..MaxInserted
       /\ Ends("insert_coin", amount, StateInsertCoin(Began(machine), amount))

SelectProduct ==
    \E product_id \in ProductIds :
       Ends("select_product", product_id, StateSelectProduct(Began(machine), product_id))

Dispense == Ends("dispense", 0, StateDispense(Began(machine)))

Cancel == Ends("cancel", 0, StateCancel(Began(machine)))

NextVending == InsertCoin \/ SelectProduct \/ Dispense \/ Cancel

NextVendingAny == InsertCoin \/ InsertNegative \/ SelectProduct \/ Dispense \/ Cancel

----------------------------------------------------------------------------
\* Specifications

\* Every program as its main has created it.
Init ==
    /\ InitManager
    /\ InitThreads
    /\ InitRemote
    /\ InitLogger
    /\ InitObserver
    /\ InitTraffic
    /\ InitChain
    /\ InitVending

\* The calls of a client of the CommandManager.
Spec == Init /\ [][Next]_vars

\* The calls of the client that fills the history of the CommandManager.
SpecFill == Init /\ [][NextFill]_vars

\* The calls of a client of the RemoteControl.
SpecRemote == Init /\ [][NextRemote]_vars

\* The calls of the client that fills the history of the RemoteControl.
SpecRemoteFill == Init /\ [][NextRemoteFill]_vars

\* The calls of a client of the Logger.
SpecLogger == Init /\ [][NextLogger]_vars

\* The calls of a client of the weather station.
SpecObserver == Init /\ [][NextObserver]_vars

\* The calls of a client of the news agency.
SpecNews == Init /\ [][NextNews]_vars

\* The calls of a client of the traffic lights.
SpecTraffic == Init /\ [][NextTraffic]_vars

\* The same with the loop of main, which calls traffic_light_next on the
\* intersection again and again: a call that can be made is made, and
\* every call returns (no handler loops or waits).
SpecTrafficFair == SpecTraffic /\ WF_vars(IntersectionNext)

\* The calls of a client of the chain of handlers.
SpecChain == Init /\ [][NextChain]_vars

\* Two threads that call the manager without a lock, and two that make
\* every call behind one lock.
SpecRace == Init /\ [][NextRace]_vars
SpecLocked == Init /\ [][NextLocked]_vars

\* The calls of a client of the vending machine.
SpecVending == Init /\ [][NextVending]_vars

\* The calls of a client that inserts negative amounts as well.
SpecVendingAny == Init /\ [][NextVendingAny]_vars

----------------------------------------------------------------------------
\* Properties

Manager == <<editor, command_history, current_index, history_size>>

\* C1: after any sequence of execute_command, undo_command and redo_command
\* calls, -1 <= current_index <= history_size - 1.
C1_CursorInvariant ==
    /\ -1 <= current_index
    /\ current_index <= history_size - 1

\* C2: execute_command called with current_index = c runs the command's
\* execute exactly once, leaves the slots 0..c as they are, stores the
\* command in slot c + 1 and ends with current_index = c + 1 and
\* history_size = c + 2, so that no command is left after slot c + 1.
C2_ExecuteAppends ==
    [][called' = "execute_command" =>
          LET c == current_index IN
          /\ Len(calls') = 1
          /\ calls'[1].fn = "execute"
          /\ \A i \in 0..c : command_history'[i] = command_history[i]
          /\ c + 1 \in Slots
          /\ command_history'[c + 1] = calls'[1].cmd
          /\ current_index' = c + 1
          /\ history_size' = c + 2
          /\ \A i \in Slots : i > c + 1 => ~IsCommand(command_history'[i])]_vars

\* C3: right after any execute_command the command is the tip of the
\* history and a redo_command does nothing but report; a redo_command never
\* applies a command of a slot that an execute_command has cleared.
C3_LinearTimeline ==
    [][/\ called' = "execute_command" =>
            /\ current_index' = history_size' - 1
            /\ current_index' \in Slots
            /\ command_history'[current_index'] = calls'[1].cmd
       /\ (called = "execute_command" /\ called' = "redo_command") =>
            /\ report' = "Nothing to redo"
            /\ calls' = <<>>
            /\ Manager' = Manager
       /\ (called' = "redo_command" /\ calls' # <<>>) =>
            /\ calls'[1].slot < history_size
            /\ IsCommand(command_history[calls'[1].slot])
       /\ \A i \in Slots : i >= history_size' => ~IsCommand(command_history'[i])]_vars

\* C4: undo_command with current_index = -1 and redo_command with
\* current_index = history_size - 1 only report that there is nothing to undo
\* or redo: no command effect is invoked and the cursor, the size, the
\* history and the editor stay as they are.
C4_BoundaryNoOps ==
    [][/\ (called' = "undo_command" /\ current_index = -1) =>
            /\ report' = "Nothing to undo"
            /\ calls' = <<>>
            /\ Manager' = Manager
       /\ (called' = "redo_command" /\ current_index = history_size - 1) =>
            /\ report' = "Nothing to redo"
            /\ calls' = <<>>
            /\ Manager' = Manager]_vars

\* An undo_command on a history whose commands are all undone has reported.
C4_Witness ==
    /\ called = "undo_command"
    /\ report = "Nothing to undo"
    /\ current_index = -1
    /\ history_size > 1

\* C5: undo_command called with current_index = c >= 0 invokes the undo of
\* the command of slot c, once, sets current_index = c - 1 and leaves
\* history_size and every slot as they are.
C5_UndoFrame ==
    [][(called' = "undo_command" /\ current_index >= 0) =>
          /\ calls' = <<[fn |-> "undo", slot |-> current_index,
                         cmd |-> command_history[current_index]]>>
          /\ current_index' = current_index - 1
          /\ history_size' = history_size
          /\ command_history' = command_history]_vars

\* An undo_command has undone a command that is not the first of the history.
C5_Witness ==
    /\ called = "undo_command"
    /\ report = "Undoing"
    /\ current_index >= 0
    /\ calls = <<[fn |-> "undo", slot |-> current_index + 1,
                  cmd |-> command_history[current_index + 1]]>>

\* What create_..._command wrote into a command and no effect rewrites.
Created(cmd) ==
    CASE cmd.name = "Insert" -> <<cmd.name, cmd.text, cmd.position>>
      [] cmd.name = "Delete" -> <<cmd.name, cmd.start_position, cmd.length>>
      [] cmd.name = "Copy"   -> <<cmd.name, cmd.start_position, cmd.length>>
      [] cmd.name = "Paste"  -> <<cmd.name, cmd.position>>
      [] OTHER -> <<cmd.name>>

\* C6: redo_command called with current_index = c < history_size - 1 sets
\* current_index = c + 1 and invokes the execute of the command of slot
\* c + 1, once; history_size stays, every other slot stays, and slot c + 1
\* holds the command it held (the effect may rewrite what it captured).
C6_RedoFrame ==
    [][(called' = "redo_command" /\ current_index < history_size - 1) =>
          LET c == current_index IN
          /\ current_index' = c + 1
          /\ Len(calls') = 1
          /\ calls'[1].fn = "execute"
          /\ calls'[1].slot = c + 1
          /\ calls'[1].cmd = CommandExecute(command_history[c + 1], editor).cmd
          /\ history_size' = history_size
          /\ \A i \in Slots : i # c + 1 => command_history'[i] = command_history[i]
          /\ command_history'[c + 1] = calls'[1].cmd
          /\ Created(command_history'[c + 1]) = Created(command_history[c + 1])]_vars

\* A redo_command has redone a command that is not the last of the history.
C6_Witness ==
    /\ called = "redo_command"
    /\ report = "Redoing"
    /\ current_index >= 0
    /\ current_index < history_size - 1
    /\ IsCommand(command_history[current_index + 1])

\* C7: for an Insert, Delete or Paste command whose position or range lies
\* inside the content, execute_command followed by undo_command leaves the
\* content as it was before the execute_command.
C7_UndoInvertsContent ==
    (round.stage = 2 /\ round.cmd.name \in {"Insert", "Delete", "Paste"})
        => editor.content = round.before.content

\* C8: after undo_command the content, the cursor_position and the
\* clipboard of the editor are what they were right before the undone
\* command was executed (stated for the undo_command that directly follows
\* the execute_command).
C8_UndoRestoresEditor ==
    round.stage = 2 => editor = round.before

\* C9: after execute_command, undo_command, redo_command the editor, the
\* history and current_index are what they were right after the
\* execute_command.
C9_RedoReapplies ==
    round.stage = 3 => Snapshot = round.after

\* C10: history_size never exceeds MAX_COMMANDS and no command is stored
\* outside the slots 0..MAX_COMMANDS-1; an execute_command on a full history
\* drops the command of slot 0, moves the others down by one and stores the
\* new command in the last slot.
C10_BoundedHistory ==
    [][/\ history_size' <= MAX_COMMANDS
       /\ ~ub'
       /\ (called' = "execute_command" /\ current_index = MAX_COMMANDS - 1) =>
            /\ \A i \in 0..(MAX_COMMANDS - 2) : command_history'[i] = command_history[i + 1]
            /\ command_history'[MAX_COMMANDS - 1] = calls'[1].cmd
            /\ current_index' = MAX_COMMANDS - 1]_vars

\* C11: the remote records every executed command: a press_undo undoes the
\* command pressed last among those not undone yet, also after more than
\* MAX_HISTORY press_button calls; after a press_button the pressed command
\* is the last of the history, and a press_button on a full history drops
\* the oldest entry and moves the others down.
C11_RemoteRecords ==
    [][/\ (remote_called' = "press_undo" /\ pressed # <<>>) =>
            remote_calls' = <<[fn |-> "undo", cmd |-> pressed[Len(pressed)]]>>
       /\ remote_called' = "press_button" =>
            /\ remote'.history_count \in 1..MAX_HISTORY
            /\ remote'.history[remote'.history_count - 1] = remote_calls'[1].cmd
       /\ (remote_called' = "press_button" /\ remote.history_count = MAX_HISTORY) =>
            \A i \in 0..(MAX_HISTORY - 2) : remote'.history[i] = remote.history[i + 1]]_vars

\* C12: for every state of the light and each of the Turn On, Turn Off and
\* Set Brightness commands, press_button followed by press_undo leaves
\* is_on and brightness as they were before the press.
C12_UndoRestoresLight ==
    press_round.stage = 2 => light = press_round.before

\* The command effects that report that they cannot complete: the undo of
\* a Copy command, which only prints that the copy cannot be undone.  The
\* effects return nothing, so the print is the only report there is.
Fails(call) == call.fn = "undo" /\ call.cmd.name = "Copy"

\* C13: when an effect that a call of the manager invokes cannot complete,
\* the call leaves current_index and history_size as they are:
\* execute_command does not append, undo_command and redo_command do not
\* move the cursor.
C13_EffectFailure ==
    [][(\E j \in 1..Len(calls') : Fails(calls'[j])) =>
          /\ current_index' = current_index
          /\ history_size' = history_size]_vars

\* C14: when every executed command is a new object, each command is
\* destroyed exactly once, by the execute_command that truncates it or by
\* destroy_command_manager, and no slot 0..history_size-1 holds a destroyed
\* command.  In counts: no destroy call reaches a slot without a command;
\* while the manager lives every slot 0..history_size-1 holds a command and
\* every command created so far is in such a slot or destroyed; after
\* destroy_command_manager every command created is destroyed.
C14_Ownership ==
    /\ destroys.other = 0
    /\ called # "destroy_command_manager" =>
         /\ \A i \in 0..(history_size - 1) : i \in Slots /\ IsCommand(command_history[i])
         /\ created = destroys.live + history_size
    /\ called = "destroy_command_manager" => destroys.live = created

\* C15: print_command_history changes neither current_index, history_size
\* and the history nor the editor; it reports the names of the commands of
\* the slots 0..history_size-1 and marks the one at current_index, and a
\* second call right after the first reports the same lines.
C15_InspectionReadOnly ==
    [][called' = "print_command_history" =>
          /\ Manager' = Manager
          /\ calls' = <<>>
          /\ Len(listing'.lines) = history_size
          /\ \A i \in 1..history_size :
                /\ listing'.lines[i].name = command_history[i - 1].name
                /\ listing'.lines[i].marker = (i - 1 = current_index)
          /\ called = "print_command_history" => listing'.lines = listing.lines]_vars

\* Two print_command_history calls in a row have reported a history of two
\* commands or more with the cursor at its first command.
C15_Witness ==
    /\ called = "print_command_history"
    /\ listing.previous = <<listing.lines>>
    /\ Len(listing.lines) >= 2
    /\ current_index = 0
    /\ listing.lines[1].marker

\* The Loggers that exist.
Instances == {b \in Blocks : logger_heap[b] # Free}

\* C16: from the first get_logger_instance call to destroy_logger every
\* get_logger_instance call returns the same Logger and creates none, at
\* most one Logger exists at any time, and what set_log_level or
\* log_message changes through one pointer is what every other pointer
\* shows.
C16_Singleton ==
    [][/\ Cardinality(Instances') <= 1
       /\ \A r \in since' : refs'[r] = logger_instance' /\ refs'[r] \in Instances'
       /\ (logger_called'.fn = "get_logger_instance" /\ since # {}) =>
            /\ \A r \in since : logger_called'.returned = refs[r]
            /\ instances' = instances
            /\ logger_heap' = logger_heap
       /\ logger_called'.fn = "set_log_level" =>
            \A r \in since : logger_heap'[refs[r]].log_level = logger_called'.level
       /\ (logger_called'.fn = "log_message" /\ logger_report' = "LOG") =>
            \A r \in since :
                LET before == logger_heap[refs[r]]
                    after == logger_heap'[refs[r]]
                IN /\ after.message_count = before.message_count + 1
                   /\ after.messages[before.message_count] = logger_called'.message]_vars

\* The second Logger of a run: both pointers come from get_logger_instance,
\* and a level set through logger1 shows through logger2.
C16_Witness ==
    /\ instances = 2
    /\ since = Refs
    /\ refs["logger1"] = refs["logger2"]
    /\ logger_called.fn = "set_log_level"
    /\ logger_called.ref = "logger1"
    /\ logger_heap[refs["logger2"]].log_level = 3

\* C17: after unsubscribe(subject, o) or detach(agency, o) has returned,
\* no notify_all and no notify delivers to o until o subscribes again,
\* whatever subscribe and unsubscribe calls came before, o subscribed more
\* than once included.
C17_UnsubscribeStops ==
    \A i \in 1..Len(delivered) : delivered[i] \notin stopped

\* The three colours, in the order of the cycle that starts at red.
Cycle == <<"red_state", "green_state", "yellow_state">>

IntersectionIs(state) == lights["intersection"].current_state = state

FullChain ==
    /\ handlers["help_desk"].next_handler = "sysadmin"
    /\ handlers["sysadmin"].next_handler = "it_manager"
    /\ handlers["it_manager"].next_handler = "cto"
    /\ handlers["cto"].next_handler = NoHandler

\* C19: a request of priority 4 handed to the help desk of the chain Help
\* Desk -> System Administrator -> IT Manager -> CTO is handled by the CTO,
\* whatever its type and amount.
C19_CriticalReachesCTO ==
    (/\ chain_called.fn = "handle_request"
     /\ chain_called.self = "help_desk"
     /\ chain_called.request.priority = 4
     /\ FullChain)
        => (outcome = [by |-> "cto", result |-> "handled"] /\ route[Len(route)] = "cto")

\* C20: n execute_command calls of Insert, Delete and Paste commands in a
\* row followed by n undo_command calls leave the content as it was before
\* the first execute, and n redo_command calls after them leave the content
\* as it was after the last execute; a Delete command that was just executed
\* holds in deleted_text exactly the text that the execute removed.
C20_UndoAllRedoAll ==
    /\ (trip.phase = "undo" /\ trip.k = trip.n) => editor.content = trip.initial
    /\ (trip.phase = "redo" /\ trip.k = trip.n) => editor.content = trip.final
    /\ (round.stage = 1 /\ round.cmd.name = "Delete")
           => CString(command_history[current_index].deleted_text)
                 = SubSeq(round.before.content, round.cmd.start_position + 1,
                          round.cmd.start_position + round.cmd.length)

\* C21: while the client has pressed at most MAX_HISTORY buttons, a
\* press_undo calls the undo of the command pressed last among those not
\* undone yet and decrements history_count by 1, and a press_undo when every
\* press has been undone reports "Nothing to undo" and changes neither the
\* light nor history_count.
C21_UndoReverseOrder ==
    [][(remote_called' = "press_undo" /\ presses <= MAX_HISTORY) =>
          IF pressed # <<>>
          THEN /\ remote_calls' = <<[fn |-> "undo", cmd |-> pressed[Len(pressed)]]>>
               /\ remote'.history_count = remote.history_count - 1
               /\ remote_report' = "Pressing UNDO"
          ELSE /\ remote_calls' = <<>>
               /\ remote_report' = "Nothing to undo"
               /\ light' = light
               /\ remote'.history_count = remote.history_count]_vars

\* MAX_HISTORY presses, MAX_HISTORY undos of them in turn, and one more
\* press_undo.
C21_Witness ==
    /\ presses = MAX_HISTORY
    /\ remote_called = "press_undo"
    /\ remote_report = "Nothing to undo"
    /\ pressed = <<>>

\* C22: when every press since the history was empty has been undone and
\* one of them pressed a command object that was already pressed and not
\* undone, is_on and brightness of the light are what they were before the
\* first of these presses.
C22_ReusedCommandsUndo ==
    (/\ remote_called = "press_undo"
     /\ remote_calls # <<>>
     /\ pressed = <<>>
     /\ session.reused)
        => light = session.before

\* No thread is in a call.
Idle == \A t \in ThreadIds : threads[t].pc = "idle"

\* Every command a thread executed is in the history: while no thread has
\* called undo_command or redo_command, the history holds as many commands
\* as were created, the last of them at current_index.
NoneMissing ==
    (\A t \in ThreadIds : ~threads[t].others)
        => /\ history_size = created
           /\ current_index = created - 1
           /\ \A i \in Slots : i < created => IsCommand(command_history[i])

\* C23: with every call of the two threads made behind one lock, whenever
\* no thread is in a call -1 <= current_index <= history_size - 1 and no
\* executed command is missing from the history.  (That threads without the
\* lock reach a state where this fails is C23_RaceCorrupts.)
C23_SerializedCursor ==
    Idle => /\ -1 <= current_index
            /\ current_index <= history_size - 1
            /\ NoneMissing

\* Two threads without a lock have returned from all their calls, every
\* access they made was inside the array and through a live command, and
\* current_index is outside -1..history_size-1 or an executed command is
\* missing from the history.
C23_RaceCorrupts ==
    /\ Idle
    /\ ~ub
    /\ \/ current_index < -1
       \/ current_index > history_size - 1
       \/ ~NoneMissing

\* The Loggers that exist.
Loggers == {b \in Blocks : logger_heap[b] # Free}

C25_EveryRequestOutcome ==
    chain_called.fn = "handle_request"
        => /\ outcome.result \in {"handled", "approved", "No more handlers in chain"}
           /\ route # <<>>
           /\ outcome.by = route[Len(route)]

\* C26: the vending machine dispenses only paid, in-stock products.  In every
\* step no product_stock entry is below 0; at every stock decrement of the
\* call inserted_amount is at least selected_product_price, the stock of the
\* product is at least 1 and the change is not negative; a dispense in
\* Product Selected decrements exactly one unit of exactly the selected
\* product, and every other call leaves the stock alone.
C26_PaidInStock ==
    [][/\ \A i \in ProductIndex : machine'.product_stock[i] >= 0
       /\ \A k \in 1..Len(vend_result'.sold) :
             LET sale == vend_result'.sold[k]
             IN /\ sale.paid >= sale.price
                /\ sale.stock >= 1
                /\ sale.change >= 0
       /\ IF vend_called'.fn = "dispense" /\ machine.current_state.name = "Product Selected"
          THEN /\ Len(vend_result'.sold) = 1
               /\ LET index == vend_result'.sold[1].index
                  IN /\ machine.product_names[index] = machine.selected_product_name
                     /\ machine'.product_stock =
                            [machine.product_stock EXCEPT ![index] = @ - 1]
          ELSE /\ vend_result'.sold = <<>>
               /\ machine'.product_stock = machine.product_stock]_vars

MoneyConsistent ==
    /\ machine.current_state.name = "Idle" =>
          /\ machine.inserted_amount = 0
          /\ machine.selected_product_price = 0
          /\ machine.selected_product_name = ""
    /\ machine.current_state.name = "Product Selected" =>
          /\ machine.inserted_amount >= machine.selected_product_price
          /\ machine.selected_product_price > 0

C28_StateMoneyConsistent ==
    [][/\ MoneyConsistent
       /\ MoneyConsistent'
       /\ (/\ vend_called'.fn = "cancel"
           /\ machine.current_state.name \in {"Coin Inserted", "Product Selected"}) =>
             /\ machine'.current_state = get_idle_state
             /\ machine'.inserted_amount = 0
             /\ machine'.selected_product_price = 0
             /\ machine'.selected_product_name = ""]_vars

====
